---- MODULE Spec2Model ----
(***************************************************************************)
(* Model of src/app.py: a Streamlit script that loads two secrets, renders *)
(* eight number inputs, and on a button press POSTs one scoring request    *)
(* and renders the prediction found in the JSON response.                  *)
(*                                                                         *)
(* Numbers: the widgets hold decimals with at most four places; the model  *)
(* holds them as integers in units of 1/10000.  JSON numbers of a response *)
(* are integers.  Pictographs of the message texts are left out of the     *)
(* string literals; the texts are otherwise those of the source.           *)
(***************************************************************************)
EXTENDS Integers, Sequences, FiniteSets, TLC

(***************************************************************************)
(* Bounds of the model.                                                    *)
(***************************************************************************)
\* Longest first row of a response's "data" list.
MaxRowLen == 3
\* Most rows of a response's "data" list.
MaxRows == 2
\* Most presses of a number input's "+" button in a session.
MaxSteps == 2

(***************************************************************************)
(* JSON values, as json.loads builds them: None, bool, int, str, list,     *)
(* dict.  A str is a sequence of one-character strings, a dict a sequence  *)
(* of key/value pairs in insertion order, its keys distinct.               *)
(***************************************************************************)
JNull == [t |-> "null"]
JBool(b) == [t |-> "bool", b |-> b]
JNum(n) == [t |-> "num", n |-> n]
JStr(s) == [t |-> "str", s |-> s]
JList(l) == [t |-> "list", l |-> l]
JDict(d) == [t |-> "dict", d |-> d]
KV(k, v) == [k |-> k, v |-> v]

\* isinstance(x, dict)
IsDict(x) == x.t = "dict"

\* Python's type(x).__name__
PyTypeName(x) ==
  CASE x.t = "null" -> "NoneType"
    [] x.t = "bool" -> "bool"
    [] x.t = "num" -> "int"
    [] x.t = "str" -> "str"
    [] x.t = "list" -> "list"
    [] x.t = "dict" -> "dict"

(***************************************************************************)
(* Results of Python expressions: a value, or a raised exception.          *)
(***************************************************************************)
Ok(v) == [ok |-> TRUE, val |-> v]
Raise(cls, msg) == [ok |-> FALSE, cls |-> cls, msg |-> msg]

DataChars == <<"d", "a", "t", "a">>

HasKey(x, k) == \E i \in 1..Len(x.d) : x.d[i].k = k
DictGet(x, k) == x.d[CHOOSE i \in 1..Len(x.d) : x.d[i].k = k].v

\* chars occurs in s as a contiguous run
IsSubstring(chars, s) ==
  \E i \in 0..(Len(s) - Len(chars)) :
     \A j \in 1..Len(chars) : s[i + j] = chars[j]

\* "data" in x
PyContainsData(x) ==
  CASE x.t = "dict" -> Ok(HasKey(x, "data"))
    [] x.t = "list" -> Ok(\E i \in 1..Len(x.l) : x.l[i] = JStr(DataChars))
    [] x.t = "str" -> Ok(IsSubstring(DataChars, x.s))
    [] OTHER -> Raise("TypeError",
                      "argument of type '" \o PyTypeName(x) \o "' is not iterable")

\* len(x)
PyLen(x) ==
  CASE x.t = "dict" -> Ok(Len(x.d))
    [] x.t = "list" -> Ok(Len(x.l))
    [] x.t = "str" -> Ok(Len(x.s))
    [] OTHER -> Raise("TypeError",
                      "object of type '" \o PyTypeName(x) \o "' has no len()")

\* x[k] for a str key k
PyGetItemStr(x, k) ==
  CASE x.t = "dict" -> IF HasKey(x, k) THEN Ok(DictGet(x, k))
                       ELSE Raise("KeyError", "'" \o k \o "'")
    [] x.t = "list" -> Raise("TypeError",
                             "list indices must be integers or slices, not str")
    [] x.t = "str" -> Raise("TypeError",
                            "string indices must be integers, not 'str'")
    [] OTHER -> Raise("TypeError",
                      "'" \o PyTypeName(x) \o "' object is not subscriptable")

\* x[i] for an int i >= 0; the keys of a JSON object are strings, never i
PyGetItemInt(x, i) ==
  CASE x.t = "dict" -> Raise("KeyError", ToString(i))
    [] x.t = "list" -> IF i < Len(x.l) THEN Ok(x.l[i + 1])
                       ELSE Raise("IndexError", "list index out of range")
    [] x.t = "str" -> IF i < Len(x.s) THEN Ok(JStr(<<x.s[i + 1]>>))
                      ELSE Raise("IndexError", "string index out of range")
    [] OTHER -> Raise("TypeError",
                      "'" \o PyTypeName(x) \o "' object is not subscriptable")

\* x * n for an int n > 0.  A str or a list is repeated n times; the model
\* keeps the repetition as a record instead of writing it out.
PyMul(x, n) ==
  CASE x.t = "num" -> Ok(JNum(x.n * n))
    [] x.t = "bool" -> Ok(JNum((IF x.b THEN 1 ELSE 0) * n))
    [] x.t = "str" -> Ok([t |-> "str", repeat |-> x.s, times |-> n])
    [] x.t = "list" -> Ok([t |-> "list", repeat |-> x.l, times |-> n])
    [] OTHER -> Raise("TypeError",
                      "unsupported operand type(s) for *: '" \o PyTypeName(x)
                        \o "' and 'int'")

\* the decimal digits of n >= 0 in groups of three
Group3(k) ==
  IF k < 10 THEN "00" \o ToString(k)
  ELSE IF k < 100 THEN "0" \o ToString(k) ELSE ToString(k)

RECURSIVE Commas(_)
Commas(n) ==
  IF n < 1000 THEN ToString(n)
  ELSE Commas(n \div 1000) \o "," \o Group3(n % 1000)

\* format(x, ",.0f")
PyFormatComma0f(x) ==
  CASE x.t = "num" -> Ok(IF x.n < 0 THEN "-" \o Commas(-x.n) ELSE Commas(x.n))
    [] x.t = "bool" -> Ok(IF x.b THEN "1" ELSE "0")
    [] x.t = "str" -> Raise("ValueError", "Cannot specify ',' with 's'.")
    [] OTHER -> Raise("TypeError",
                      "unsupported format string passed to " \o PyTypeName(x)
                        \o ".__format__")

\* format(x, ".4f")
PyFormat4f(x) ==
  CASE x.t = "num" -> Ok(ToString(x.n) \o ".0000")
    [] x.t = "bool" -> Ok(IF x.b THEN "1.0000" ELSE "0.0000")
    [] x.t = "str" -> Raise("ValueError",
                            "Unknown format code 'f' for object of type 'str'")
    [] OTHER -> Raise("TypeError",
                      "unsupported format string passed to " \o PyTypeName(x)
                        \o ".__format__")

(***************************************************************************)
(* What the page shows: the Streamlit calls of the script, in order, each  *)
(* with the source line of the call.                                       *)
(***************************************************************************)
StError(at, text) == [w |-> "error", at |-> at, text |-> text]
StSuccess(at, text) == [w |-> "success", at |-> at, text |-> text]
StWarning(at, text) == [w |-> "warning", at |-> at, text |-> text]
StWrite(at, text) == [w |-> "write", at |-> at, text |-> text]
StMarkdown(at, text) == [w |-> "markdown", at |-> at, text |-> text]
StInfo(at, text) == [w |-> "info", at |-> at, text |-> text]
StMetric(at, label, value) == [w |-> "metric", at |-> at, label |-> label, value |-> value]
StJson(at, j) == [w |-> "json", at |-> at, json |-> j]
StCode(at, body) == [w |-> "code", at |-> at, code |-> body]

\* a script variable that no assignment has reached
Unset == [t |-> "unset"]

(***************************************************************************)
(* The body of the inner try.  It ends normally or by raising; either way  *)
(* it leaves what it has shown (out) and the script variables it has set.  *)
(***************************************************************************)
Done(out, pv, hp) ==
  [raised |-> FALSE, out |-> out, prediction_value |-> pv, house_price |-> hp]
Fail(r, out, pv, hp) ==
  [raised |-> TRUE, cls |-> r.cls, msg |-> r.msg, out |-> out,
   prediction_value |-> pv, house_price |-> hp]

NoPredictionData ==
  Done(<<StWarning(170, "No prediction data found in response")>>, Unset, Unset)

\* lines 145-163: the branch taken when "output_feature_0" is found
ShowPrediction(prediction_data) ==
  LET prediction_value == DictGet(prediction_data, "output_feature_0")
      hp == PyMul(prediction_value, 100000)
  IN IF ~hp.ok THEN Fail(hp, <<>>, prediction_value, Unset) ELSE
     LET house_price == hp.val
         f151 == PyFormatComma0f(house_price)
         f152 == PyFormat4f(prediction_value)
     IN IF ~f151.ok THEN Fail(f151, <<>>, prediction_value, house_price) ELSE
        LET m151 == StMarkdown(151, "### Predicted Median House Value: **$"
                                      \o f151.val \o "**")
        IN IF ~f152.ok
           THEN Fail(f152, <<m151>>, prediction_value, house_price)
           ELSE Done(<<m151,
                       StMarkdown(152, "*Raw prediction value: " \o f152.val
                                         \o " (in $100,000s)*"),
                       StMetric(157, "Median House Value", "$" \o f151.val),
                       StInfo(163, "Prediction for California housing district: **$"
                                     \o f151.val \o "**")>>,
                     prediction_value, house_price)

\* lines 166-168
ShowMissingField(prediction_data) ==
  Done(<<StWarning(166, "Could not find 'output_feature_0' in prediction data"),
         StWrite(167, "**Received data:**"),
         StJson(168, prediction_data)>>, Unset, Unset)

\* line 144
HasPrediction(prediction_data) ==
  IsDict(prediction_data) /\ HasKey(prediction_data, "output_feature_0")

\* variant: result["data"][0][0]
RowPayloadFirstElement(result) ==
  LET data == PyGetItemStr(result, "data")
  IN IF ~data.ok THEN data ELSE
     LET row == PyGetItemInt(data.val, 0)
     IN IF ~row.ok THEN row ELSE PyGetItemInt(row.val, 0)

\* line 142: result["data"][0][1]
RowPayload(result) ==
  LET data == PyGetItemStr(result, "data")
  IN IF ~data.ok THEN data ELSE
     LET row == PyGetItemInt(data.val, 0)
     IN IF ~row.ok THEN row ELSE PyGetItemInt(row.val, 1)

\* line 141: "data" in result and len(result["data"]) > 0
HasData(result) ==
  LET c == PyContainsData(result)
  IN IF ~c.ok THEN c ELSE
     IF ~c.val THEN Ok(FALSE) ELSE
     LET data == PyGetItemStr(result, "data")
     IN IF ~data.ok THEN data ELSE
        LET n == PyLen(data.val)
        IN IF ~n.ok THEN n ELSE Ok(n.val > 0)

\* lines 141-170
ExtractionSteps(result) ==
  LET has == HasData(result)
  IN IF ~has.ok THEN Fail(has, <<>>, Unset, Unset) ELSE
     IF ~has.val THEN NoPredictionData ELSE
     LET pd == RowPayload(result)
     IN IF ~pd.ok THEN Fail(pd, <<>>, Unset, Unset) ELSE
        IF HasPrediction(pd.val) THEN ShowPrediction(pd.val)
        ELSE ShowMissingField(pd.val)

\* lines 172-175
ExtractionExcept(e, result) ==
  <<StError(173, "Error extracting prediction: " \o e.msg),
    StWrite(174, "**Raw response for debugging:**"),
    StJson(175, result)>>

\* variant: no inner try, the exception reaches the except of line 189
ExtractionWithoutInnerExcept(result) ==
  LET r == ExtractionSteps(result)
  IN [out |-> IF r.raised THEN r.out \o <<StError(190, "Error: " \o r.msg)>>
                          ELSE r.out,
      prediction_value |-> r.prediction_value,
      house_price |-> r.house_price]

\* lines 140-175: the inner try with its except clause
Extraction(result) ==
  LET r == ExtractionSteps(result)
  IN [out |-> IF r.raised THEN r.out \o ExtractionExcept(r, result) ELSE r.out,
      prediction_value |-> r.prediction_value,
      house_price |-> r.house_price]

(***************************************************************************)
(* The HTTP exchange.  A response body is JSON text, held as the value     *)
(* response.json() parses it to, or text that is not JSON.  An exception   *)
(* of the requests library carries the classes it is an instance of.       *)
(***************************************************************************)
JsonBody(j) == [kind |-> "json", value |-> j]
RawBody(text) == [kind |-> "raw", raw |-> text]
Response(status_code, body) ==
  [kind |-> "response", status_code |-> status_code, body |-> body]
Exc(cls, mro, msg) == [kind |-> "exception", cls |-> cls, mro |-> mro, msg |-> msg]
NoResponse == [kind |-> "none"]
NoRequest == [kind |-> "none"]

\* response.text
ResponseText(response) == response.body

\* response.json()
ResponseJson(response) ==
  IF response.body.kind = "json" THEN Ok(response.body.value)
  ELSE Raise("JSONDecodeError", "Expecting value: line 1 column 1 (char 0)")

JSONDecodeError(msg) ==
  Exc("JSONDecodeError",
      {"JSONDecodeError", "InvalidJSONError", "RequestException", "OSError",
       "ValueError", "Exception"}, msg)

\* variant: the ConnectionError clause comes before the Timeout clause
OuterExceptConnectionFirst(e) ==
  IF "ConnectionError" \in e.mro
    THEN <<StError(188, "Connection error. Check your endpoint URL.")>>
  ELSE IF "Timeout" \in e.mro
    THEN <<StError(186, "Request timed out. Please try again.")>>
  ELSE <<StError(190, "Error: " \o e.msg)>>

\* lines 185-190: the except clauses, tried in order
OuterExcept(e) ==
  IF "Timeout" \in e.mro
    THEN <<StError(186, "Request timed out. Please try again.")>>
  ELSE IF "ConnectionError" \in e.mro
    THEN <<StError(188, "Connection error. Check your endpoint URL.")>>
  ELSE <<StError(190, "Error: " \o e.msg)>>

\* lines 181-183
ShowApiError(response) ==
  <<StError(182, "API Error " \o ToString(response.status_code)),
    StCode(183, ResponseText(response))>>

\* lines 133-183 under the except clauses of lines 185-190: what the handler
\* does once requests.post has returned `response`
OnResponse(response) ==
  IF response.status_code = 200
  THEN LET result == ResponseJson(response)
       IN IF ~result.ok
          THEN [out |-> OuterExcept(JSONDecodeError(result.msg)),
                prediction_value |-> Unset, house_price |-> Unset]
          ELSE LET e == Extraction(result.val)
               IN [out |-> <<StSuccess(137, "Prediction successful!")>>
                             \o e.out
                             \o <<StJson(179, result.val)>>,
                   prediction_value |-> e.prediction_value,
                   house_price |-> e.house_price]
  ELSE [out |-> ShowApiError(response),
        prediction_value |-> Unset, house_price |-> Unset]

\* lines 185-190: what the handler does once requests.post has raised e
OnException(e) ==
  [out |-> OuterExcept(e), prediction_value |-> Unset, house_price |-> Unset]

(***************************************************************************)
(* The request.                                                            *)
(***************************************************************************)
\* line 110
BuildHeaders(pat) == [Authorization |-> "Snowflake Token=\"" \o pat \o "\""]

\* variant: the last two features change places
PayloadSwapped(med_inc, house_age, ave_rooms, ave_bedrms, population, ave_occup, latitude, longitude) ==
  [data |-> << <<0, med_inc, house_age, ave_rooms, ave_bedrms, population,
                 ave_occup, longitude, latitude>> >>]

\* lines 111-123
Payload(med_inc, house_age, ave_rooms, ave_bedrms, population, ave_occup, latitude, longitude) ==
  [data |-> << <<0, med_inc, house_age, ave_rooms, ave_bedrms, population,
                 ave_occup, latitude, longitude>> >>]

\* lines 126-131: the arguments of requests.post
PostRequest(url, headers, json) ==
  [kind |-> "post", url |-> url, headers |-> headers, json |-> json,
   timeout |-> 30]

(***************************************************************************)
(* The secrets and the number inputs.                                      *)
(***************************************************************************)
SecretKeys == {"SNOWFLAKE_PAT", "SCORING_ENDPOINT"}
SecretValue(k) ==
  IF k = "SNOWFLAKE_PAT" THEN "pat-token" ELSE "https://scoring.example/predict"
\* the secret stores a deployment can have: any of the two keys may be absent
SecretStores == { [k \in S |-> SecretValue(k)] : S \in SUBSET SecretKeys }

\* variant: only the token is required, the endpoint defaults to ""
LoadSecretsPatOnly(s) ==
  IF "SNOWFLAKE_PAT" \in DOMAIN s
  THEN [ok |-> TRUE, pat |-> s["SNOWFLAKE_PAT"],
        scoring_endpoint |-> IF "SCORING_ENDPOINT" \in DOMAIN s
                             THEN s["SCORING_ENDPOINT"] ELSE ""]
  ELSE [ok |-> FALSE]

\* lines 11-16: st.secrets[k] raises when k is absent, and the bare except
\* then shows the error and stops the script
LoadSecrets(s) ==
  IF "SNOWFLAKE_PAT" \in DOMAIN s /\ "SCORING_ENDPOINT" \in DOMAIN s
  THEN [ok |-> TRUE, pat |-> s["SNOWFLAKE_PAT"],
        scoring_endpoint |-> s["SCORING_ENDPOINT"]]
  ELSE [ok |-> FALSE]

\* line 15
MissingSecrets ==
  StError(15, "Missing secrets! Please configure SNOWFLAKE_PAT and SCORING_ENDPOINT")

\* lines 24-103: the eight st.number_input calls, in units of 1/10000
Widgets ==
  << [name |-> "med_inc", value |-> 38462, step |-> 1000,
      min_value |-> 0, max_value |-> 150000],
     [name |-> "house_age", value |-> 270000, step |-> 10000,
      min_value |-> 10000, max_value |-> 520000],
     [name |-> "ave_rooms", value |-> 54298, step |-> 1000,
      min_value |-> 8000, max_value |-> 1410000],
     [name |-> "ave_bedrms", value |-> 10967, step |-> 100,
      min_value |-> 3000, max_value |-> 340000],
     [name |-> "population", value |-> 33750000, step |-> 1000000,
      min_value |-> 30000, max_value |-> 356820000],
     [name |-> "ave_occup", value |-> 30625, step |-> 1000,
      min_value |-> 7000, max_value |-> 12430000],
     [name |-> "latitude", value |-> 336900, step |-> 100,
      min_value |-> 325000, max_value |-> 420000],
     [name |-> "longitude", value |-> -1179600, step |-> 100,
      min_value |-> -1243000, max_value |-> -1143000] >>

DefaultInputs == [i \in 1..Len(Widgets) |-> Widgets[i].value]

RECURSIVE StepsUpTo(_, _)
\* the "+" presses that led from the defaults to the widget values v
StepsUpTo(v, n) ==
  IF n = 0 THEN 0
  ELSE StepsUpTo(v, n - 1) + (v[n] - Widgets[n].value) \div Widgets[n].step
StepsTaken(v) == StepsUpTo(v, Len(Widgets))

(***************************************************************************)
(* What the scoring service can answer: the JSON values of a 200 body,     *)
(* built around the expected shape {"data": [[index, payload], ...]} and   *)
(* its deviations, other statuses, bodies that are not JSON, and the       *)
(* exceptions requests.post raises.                                        *)
(***************************************************************************)
Filler == JNum(1)
Pad(n) == [i \in 1..n |-> Filler]
Chars_ab == <<"a", "b">>

Indices == {JNum(0), JNum(7)}
PredictionNumbers == {JNum(0), JNum(2), JNum(-3), JNum(12345)}
OtherValues ==
  {JBool(TRUE), JNull, JStr(Chars_ab), JList(<<JNum(1)>>), JDict(<<>>)}
Payloads ==
  { JDict(<<KV("output_feature_0", v)>>) : v \in PredictionNumbers \cup OtherValues }
  \cup { JDict(<<KV("output_feature_0", JNum(2)), KV("extra", JNum(1))>>),
         JDict(<<KV("extra", JNum(1)), KV("output_feature_0", JNum(2))>>),
         JDict(<<>>),
         JDict(<<KV("wrong_field", JNum(1))>>),
         JNull, JNum(5), JBool(TRUE), JStr(Chars_ab),
         JList(<<JNum(2)>>) }
\* rows: too short, [index, payload], and [0, payload, 1, ...]
ListRows ==
  { JList(<<>>), JList(<<JNum(0)>>) }
  \cup { JList(<<i, p>>) : i \in Indices, p \in Payloads }
  \cup { JList(<<JNum(0), p>> \o Pad(n)) : p \in Payloads, n \in 1..(MaxRowLen - 2) }
OtherRows ==
  { JNull, JNum(5), JBool(TRUE), JStr(<<"a">>), JStr(Chars_ab), JDict(<<>>),
    JDict(<<KV("1", JDict(<<KV("output_feature_0", JNum(2))>>))>>) }
LaterRow == JList(<<JNum(1), JDict(<<KV("output_feature_0", JNum(9))>>)>>)
DataLists ==
  { JList(<<>>) }
  \cup { JList(<<r>> \o [i \in 1..n |-> LaterRow]) :
           r \in ListRows \cup OtherRows, n \in 0..(MaxRows - 1) }
DataValues ==
  DataLists
  \cup { JNull, JNum(5), JBool(TRUE), JStr(<<>>), JStr(Chars_ab), JDict(<<>>),
         JDict(<<KV("0", LaterRow)>>) }
Results ==
  { JDict(<<KV("data", d)>>) : d \in DataValues }
  \cup { JDict(<<KV("model", JStr(Chars_ab)), KV("data", JList(<<LaterRow>>))>>),
         JDict(<<>>),
         JDict(<<KV("error", JStr(Chars_ab))>>),
         JNull, JNum(5), JBool(TRUE),
         JStr(DataChars), JStr(Chars_ab),
         JList(<<>>), JList(<<JStr(DataChars)>>), JList(<<LaterRow>>) }

Responses ==
  { Response(200, JsonBody(j)) : j \in Results }
  \cup { Response(200, RawBody(t)) : t \in {"", "<html>"} }
  \cup { Response(c, b) :
           c \in {201, 404, 500},
           b \in { RawBody("server error"), RawBody(""),
                   JsonBody(JDict(<<KV("data", JList(<<LaterRow>>))>>)) } }

\* requests.exceptions, each with the classes it derives from
RequestExc == {"RequestException", "OSError", "Exception"}
TransportExceptions ==
  { Exc("ReadTimeout", {"ReadTimeout", "Timeout"} \cup RequestExc,
        "Read timed out. (read timeout=30)"),
    Exc("ConnectTimeout",
        {"ConnectTimeout", "ConnectionError", "Timeout"} \cup RequestExc,
        "Connection to host timed out. (connect timeout=30)"),
    Exc("ConnectionError", {"ConnectionError"} \cup RequestExc,
        "Failed to establish a new connection"),
    Exc("SSLError", {"SSLError", "ConnectionError"} \cup RequestExc,
        "certificate verify failed"),
    Exc("MissingSchema", {"MissingSchema", "ValueError"} \cup RequestExc,
        "Invalid URL: No scheme supplied"),
    Exc("TooManyRedirects", {"TooManyRedirects"} \cup RequestExc,
        "Exceeded 30 redirects.") }

\* lines 198, 202, 206
ExampleButtons == {"Expensive Coastal Area", "Average Suburban Area", "Rural Inland Area"}

(***************************************************************************)
(* The state: the secret store, the page of the last script run, and the   *)
(* handler's position when it waits for requests.post.                     *)
(***************************************************************************)
VARIABLES
  secrets,            \* st.secrets
  stopped,            \* st.stop() ended the last run at line 16
  inputs,             \* the values of the eight number inputs
  button,             \* what st.button returned at line 106 in this run
  pc,                 \* "start" before the first run, then "idle", or
                      \* "posting" inside requests.post
  request,            \* the arguments of this run's requests.post
  posts,              \* calls of requests.post in this run
  response,           \* what requests.post returned or raised
  display,            \* what this run has shown, in order
  prediction_value,   \* the script's variable, line 145
  house_price         \* the script's variable, line 148

vars == <<secrets, stopped, inputs, button, pc, request, posts, response,
          display, prediction_value, house_price>>

\* lines 11-16 of a run: what the top of the script shows
TopDisplay(s) == IF LoadSecrets(s).ok THEN <<>> ELSE <<MissingSecrets>>

\* a run of the script in which the prediction button is not pressed
RunWithoutSubmit ==
  /\ stopped' = ~LoadSecrets(secrets).ok
  /\ display' = TopDisplay(secrets)
  /\ button' = FALSE
  /\ pc' = "idle"
  /\ request' = NoRequest
  /\ posts' = 0
  /\ response' = NoResponse
  /\ prediction_value' = Unset
  /\ house_price' = Unset

\* the server is up and no session has run the script yet
Init ==
  /\ secrets \in SecretStores
  /\ stopped = FALSE
  /\ display = <<>>
  /\ inputs = DefaultInputs
  /\ button = FALSE
  /\ pc = "start"
  /\ request = NoRequest
  /\ posts = 0
  /\ response = NoResponse
  /\ prediction_value = Unset
  /\ house_price = Unset

\* the browser loads or reloads the page: the script runs from the top
Rerun ==
  /\ pc \in {"start", "idle"}
  /\ RunWithoutSubmit
  /\ UNCHANGED <<secrets, inputs>>

\* the user presses "+" on number input i: lines 24-103
StepUp(i) ==
  /\ pc = "idle"
  /\ ~stopped
  /\ StepsTaken(inputs) < MaxSteps
  /\ inputs[i] + Widgets[i].step <= Widgets[i].max_value
  /\ inputs' = [inputs EXCEPT ![i] = @ + Widgets[i].step]
  /\ RunWithoutSubmit
  /\ UNCHANGED secrets

\* lines 197-207: an example button calls st.rerun()
ExampleButton(b) ==
  /\ pc = "idle"
  /\ ~stopped
  /\ RunWithoutSubmit
  /\ UNCHANGED <<secrets, inputs>>

\* lines 106-131: the prediction button; the run blocks in requests.post
ClickPredict ==
  /\ pc = "idle"
  /\ ~stopped
  /\ LET s == LoadSecrets(secrets)
     IN request' = PostRequest(s.scoring_endpoint, BuildHeaders(s.pat),
                               Payload(inputs[1], inputs[2], inputs[3], inputs[4],
                                       inputs[5], inputs[6], inputs[7], inputs[8]))
  /\ stopped' = FALSE
  /\ display' = TopDisplay(secrets)
  /\ button' = TRUE
  /\ pc' = "posting"
  /\ posts' = 1
  /\ response' = NoResponse
  /\ prediction_value' = Unset
  /\ house_price' = Unset
  /\ UNCHANGED <<secrets, inputs>>

\* lines 133-183: requests.post returns r and the handler runs to its end
PostReturns(r) ==
  /\ pc = "posting"
  /\ response' = r
  /\ LET h == OnResponse(r)
     IN /\ display' = display \o h.out
        /\ prediction_value' = h.prediction_value
        /\ house_price' = h.house_price
  /\ pc' = "idle"
  /\ UNCHANGED <<secrets, stopped, inputs, button, request, posts>>

\* variant: a timeout is retried once before it is reported
PostRaisesRetry(e) ==
  /\ pc = "posting"
  /\ IF "Timeout" \in e.mro /\ posts < 2
     THEN /\ posts' = posts + 1
          /\ UNCHANGED <<response, display, pc>>
     ELSE /\ response' = e
          /\ display' = display \o OnException(e).out
          /\ pc' = "idle"
          /\ posts' = posts
  /\ UNCHANGED <<secrets, stopped, inputs, button, request,
                 prediction_value, house_price>>

\* lines 185-190: requests.post raises e and the handler ends in an except
PostRaises(e) ==
  /\ pc = "posting"
  /\ response' = e
  /\ display' = display \o OnException(e).out
  /\ pc' = "idle"
  /\ UNCHANGED <<secrets, stopped, inputs, button, request, posts,
                 prediction_value, house_price>>

\* requests.post ends
PostEnds ==
  \/ \E r \in Responses : PostReturns(r)
  \/ \E e \in TransportExceptions : PostRaises(e)

Next ==
  \/ Rerun
  \/ \E i \in 1..Len(Widgets) : StepUp(i)
  \/ \E b \in ExampleButtons : ExampleButton(b)
  \/ ClickPredict
  \/ \E r \in Responses : PostReturns(r)
  \/ \E e \in TransportExceptions : PostRaises(e)

Spec == Init /\ [][Next]_vars

\* requests.post with timeout=30 returns or raises: the handler is not left
\* waiting forever
FairSpec == Spec /\ WF_vars(PostEnds)

(***************************************************************************)
(* Vocabulary of the properties: the outcome a finished submission shows,  *)
(* read off the page, and the shape of the JSON value that was received.   *)
(***************************************************************************)
Shown(at) == \E i \in DOMAIN display : display[i].at = at
Shows(element) == \E i \in DOMAIN display : display[i] = element

\* the handler of a submission has run to its end
Finished == button /\ pc = "idle"
GotResponse == Finished /\ response.kind = "response"
GotException == Finished /\ response.kind = "exception"
Got200Json ==
  GotResponse /\ response.status_code = 200 /\ response.body.kind = "json"
Received == response.body.value

PredictionShown == Shown(151) \/ Shown(152) \/ Shown(157) \/ Shown(163)
SuccessShown == Shown(137)
MissingDataShown == Shown(170)
MissingPredictionFieldShown == Shown(166)
ExtractionErrorShown == Shown(173)
HttpErrorShown == Shown(182)
TimeoutShown == Shown(186)
ConnectionFailureShown == Shown(188)
UnknownTransportErrorShown == Shown(190)
TransportFailureShown ==
  TimeoutShown \/ ConnectionFailureShown \/ UnknownTransportErrorShown

\* j is an object whose "data" is a non-empty list
HasDataRows(j) ==
  /\ j.t = "dict"
  /\ HasKey(j, "data")
  /\ DictGet(j, "data").t = "list"
  /\ Len(DictGet(j, "data").l) > 0
FirstRowOf(j) == DictGet(j, "data").l[1]
\* the first row of j is a pair [index, payload]
HasPairRow(j) ==
  /\ HasDataRows(j)
  /\ FirstRowOf(j).t = "list"
  /\ Len(FirstRowOf(j).l) = 2
PayloadOf(j) == FirstRowOf(j).l[2]
\* the payload of j is a mapping with a number under "output_feature_0"
HasNumericPrediction(j) ==
  /\ HasPairRow(j)
  /\ PayloadOf(j).t = "dict"
  /\ HasKey(PayloadOf(j), "output_feature_0")
  /\ DictGet(PayloadOf(j), "output_feature_0").t = "num"
PredictionOf(j) == DictGet(PayloadOf(j), "output_feature_0")

\* the success, warning and error messages of the page
StatusMessages ==
  { i \in DOMAIN display : display[i].w \in {"success", "warning", "error"} }

SecretsMissing == ~(SecretKeys \subseteq DOMAIN secrets)

(***************************************************************************)
(* C1: a 200 response of the shape {"data": [[index, payload], ...]} whose *)
(* payload holds a number v under "output_feature_0" yields a prediction   *)
(* with raw value v and house price v * 100000, and a prediction is shown  *)
(* in no other case.                                                       *)
(***************************************************************************)
C1_PredictionIffExpectedShape ==
  Finished =>
    /\ PredictionShown <=> (Got200Json /\ HasNumericPrediction(Received))
    /\ PredictionShown =>
         /\ prediction_value = PredictionOf(Received)
         /\ house_price = JNum(PredictionOf(Received).n * 100000)

\* The half of C1 that the script keeps: the expected shape always yields
\* the prediction.
ExpectedShapeYieldsPrediction ==
  (Got200Json /\ HasNumericPrediction(Received)) =>
    /\ Shown(151) /\ Shown(152) /\ Shown(157) /\ Shown(163)
    /\ prediction_value = PredictionOf(Received)
    /\ house_price = JNum(PredictionOf(Received).n * 100000)
    /\ ~ExtractionErrorShown /\ ~MissingDataShown /\ ~MissingPredictionFieldShown

(***************************************************************************)
(* C2: a response without "data", or whose "data" is not a non-empty       *)
(* sequence, yields MissingData; nothing is raised and no later extraction *)
(* step is attempted.                                                      *)
(***************************************************************************)
C2_NoDataRowsYieldsMissingData ==
  (Got200Json /\ ~HasDataRows(Received)) =>
    /\ MissingDataShown
    /\ ~ExtractionErrorShown
    /\ ~MissingPredictionFieldShown
    /\ ~PredictionShown

(***************************************************************************)
(* C3: when "data" is a non-empty sequence whose first element is not a    *)
(* 2-element sequence, the outcome is a failure of its own: not            *)
(* MissingData, not MissingPredictionField, not ExtractionError, and never *)
(* a prediction.                                                           *)
(***************************************************************************)
C3_MalformedRowIsItsOwnFailure ==
  (Got200Json /\ HasDataRows(Received) /\ ~HasPairRow(Received)) =>
    /\ ~PredictionShown
    /\ ~MissingDataShown
    /\ ~MissingPredictionFieldShown
    /\ ~ExtractionErrorShown

(***************************************************************************)
(* C4: when the first row is a pair whose payload is not a mapping, or is  *)
(* a mapping without "output_feature_0", the outcome is                    *)
(* MissingPredictionField and the payload received is shown unchanged.     *)
(***************************************************************************)
C4_MissingFieldShowsPayload ==
  (/\ Got200Json
   /\ HasPairRow(Received)
   /\ ~(PayloadOf(Received).t = "dict"
        /\ HasKey(PayloadOf(Received), "output_feature_0"))) =>
    /\ MissingPredictionFieldShown
    /\ Shows(StJson(168, PayloadOf(Received)))
    /\ ~PredictionShown
    /\ ~MissingDataShown
    /\ ~ExtractionErrorShown

C4_Witness ==
  /\ Got200Json
  /\ Received = JDict(<<KV("data",
                  JList(<<JList(<<JNum(0), JDict(<<KV("wrong_field", JNum(1))>>)>>)>>))>>)
  /\ Shows(StJson(168, JDict(<<KV("wrong_field", JNum(1))>>)))

(***************************************************************************)
(* C5: every outcome of the POST has a failure class of its own: a timeout *)
(* (also one while connecting) gives Timeout, a failure to reach the       *)
(* endpoint ConnectionFailure, any other exception UnknownTransportError   *)
(* with its message, and every status but 200 HttpError with the status    *)
(* and the body as received, and then no extraction is attempted.          *)
(***************************************************************************)
C5_FailureClasses ==
  /\ (GotException /\ "Timeout" \in response.mro) =>
       display = <<StError(186, "Request timed out. Please try again.")>>
  /\ (GotException /\ "Timeout" \notin response.mro
                   /\ "ConnectionError" \in response.mro) =>
       display = <<StError(188, "Connection error. Check your endpoint URL.")>>
  /\ (GotException /\ "Timeout" \notin response.mro
                   /\ "ConnectionError" \notin response.mro) =>
       display = <<StError(190, "Error: " \o response.msg)>>
  /\ (GotResponse /\ response.status_code # 200) =>
       /\ display = <<StError(182, "API Error " \o ToString(response.status_code)),
                      StCode(183, response.body)>>
       /\ prediction_value = Unset
       /\ house_price = Unset

C5_Witness ==
  /\ GotException
  /\ response.cls = "ConnectTimeout"
  /\ TimeoutShown
  /\ ~ConnectionFailureShown

(***************************************************************************)
(* C6: for a 200 response with a JSON body of any shape, an exception of   *)
(* the extraction steps is reported as ExtractionError with its message    *)
(* and the raw response; it is never reported as a transport failure, and  *)
(* the handler runs to its end.                                            *)
(***************************************************************************)
C6_ExtractionErrorsAreReported ==
  Got200Json =>
    /\ ~TransportFailureShown
    /\ ~HttpErrorShown
    /\ display[Len(display)] = StJson(179, Received)
    /\ ExtractionSteps(Received).raised =>
         /\ Shows(StError(173, "Error extracting prediction: "
                                 \o ExtractionSteps(Received).msg))
         /\ Shows(StJson(175, Received))
         /\ ~Shown(157)
    /\ ~ExtractionSteps(Received).raised => ~ExtractionErrorShown

C6_Witness ==
  /\ Got200Json
  /\ HasPairRow(Received)
  /\ PayloadOf(Received) = JDict(<<KV("output_feature_0", JStr(Chars_ab))>>)
  /\ Shows(StError(173, "Error extracting prediction: Cannot specify ',' with 's'."))
  /\ Shows(StJson(175, Received))

(***************************************************************************)
(* C7: a submission shows exactly one status message; one that ends in an  *)
(* extraction failure does not also show the success message.              *)
(***************************************************************************)
C7_OneStatusMessage ==
  Finished =>
    /\ Cardinality(StatusMessages) = 1
    /\ (MissingDataShown \/ MissingPredictionFieldShown \/ ExtractionErrorShown)
         => ~SuccessShown

(***************************************************************************)
(* C8: a submission issues exactly one POST, with timeout 30, whatever its *)
(* outcome, no second request follows a failure, and the submission always *)
(* reaches a terminal outcome.                                             *)
(***************************************************************************)
OnePostPerSubmission ==
  /\ button => (posts = 1 /\ request.kind = "post" /\ request.timeout = 30)
  /\ ~button => (posts = 0 /\ request = NoRequest)

C8_OnePostAndTerminates ==
  /\ []OnePostPerSubmission
  /\ (pc = "posting") ~> (Finished /\ response # NoResponse)

C8_Witness ==
  /\ GotException
  /\ "Timeout" \in response.mro
  /\ posts = 1
  /\ request.timeout = 30

(***************************************************************************)
(* C9: the request body of a submission is {"data": [[0, income, age,      *)
(* rooms, bedrooms, population, occupancy, latitude, longitude]]}: one row *)
(* of length 9, first the constant 0, then the eight input values          *)
(* unmodified and in that order.                                           *)
(***************************************************************************)
C9_PayloadRow ==
  button =>
    /\ DOMAIN request.json = {"data"}
    /\ Len(request.json.data) = 1
    /\ Len(request.json.data[1]) = 9
    /\ request.json.data[1][1] = 0
    /\ \A i \in 1..8 : request.json.data[1][i + 1] = inputs[i]
    /\ \A i \in 1..8 :
         inputs[i] \in Widgets[i].min_value..Widgets[i].max_value

C9_Witness ==
  /\ button
  /\ inputs[7] # DefaultInputs[7]
  /\ inputs[1] # DefaultInputs[1]
  /\ request.json.data[1] = <<0>> \o inputs

(***************************************************************************)
(* C10: when the token or the endpoint is missing from the secrets, the    *)
(* error is shown and the script stops: no request is ever sent.           *)
(***************************************************************************)
C10_NoRequestWithoutSecrets ==
  SecretsMissing =>
    /\ posts = 0
    /\ request = NoRequest
    /\ pc # "posting"
    /\ ~button
    /\ pc = "idle" => (stopped /\ display = <<MissingSecrets>>)

C10_Witness ==
  /\ DOMAIN secrets = {"SNOWFLAKE_PAT"}
  /\ pc = "idle"
  /\ stopped
  /\ display = <<MissingSecrets>>
  /\ posts = 0
====
